---- MODULE Spec2Model ----
(***************************************************************************)
(* The two time-windowed batch write buffers of glukit's streaming        *)
(* package: CalibrationReadStreamer (mutable buffer, grid-aligned anchor, *)
(* sticky error) and MealStreamer (immutable list, first-arrival anchor). *)
(* A behaviour drives one of the two streamers (variable kind) through    *)
(* write, flush and close calls against a store whose answers are chosen  *)
(* nondeterministically.  Two more kinds of behaviour drive the callers   *)
(* around the streamers: the import tasks of package main (updateUserData *)
(* and processSingleFile on the task queue) and store.StoreDaysOfReads.   *)
(***************************************************************************)
EXTENDS Naturals, Integers, Sequences, FiniteSets, Bags

\* ---------------------------------------------------------------- bounds
\* Records offered to a streamer in one behaviour.
MaxRecs == 3
\* Timestamps are 0..MaxTime (time units since the zero time).
MaxTime == 4
\* Calls the store receives in one behaviour (batch writes and flushes).
MaxCalls == 4
\* One write call may carry all the records of a behaviour.
MaxLen == MaxRecs
\* Tasks pending on the task queue at one time.
MaxTasks == 2
MaxRuns == 3

\* Capacity of the calibration buffer (make([]model.CalibrationRead, BUFFER_SIZE)).
\* The constant is declared in another file of package streaming; the model
\* only needs it to exceed MaxRecs, as it does for every window a day of
\* per-second reads can fill.
BUFFER_SIZE == 86400

\* ---------------------------------------------------------------- values
NoErr == "nil"
ErrShortWrite == "ErrShortWrite"
ErrStore == "ErrStore"
ErrFlush == "ErrFlush"
\* The failure of a call that panics (index out of range, nil dereference,
\* util.Propagate).
Panic == "panic"

\* The durations a streamer is configured with, in time units.
Durations == {2, 3}

\* A record is a timestamped value; id is its position in the input stream.
Record(i, tm) == [id |-> i, t |-> tm]
GetTime(c) == c.t

\* The answers of the store to WriteCalibrationBatch(batch): (n, err), where
\* the store commits a prefix of the batch, 0 <= n <= len(batch).
CalOutcomes(batch) == [n : 0..Len(batch), err : {NoErr, ErrStore}]
\* An answer of the downstream writer to Flush.
FlushOutcomes == {NoErr, ErrFlush}
\* An answer of the store to one WriteMealBatch call: (innerWriter, err).  The
\* writer handed back is a new handle, numbered after the call that returned it.
MealOutcomes == {NoErr, ErrStore}

NilRec == [id |-> 0, t |-> 0]

Min(a, b) == IF a < b THEN a ELSE b

VARIABLES
  kind,      \* "cal" or "meal": the streamer this behaviour drives; "import": the
             \* import tasks; "store": StoreDaysOfReads
  d,         \* the configured duration (b.d)
  input,     \* every record passed to a write call so far, in order
  accepted,  \* the records write calls counted as accepted (the first nn of each p)
  buf,       \* CalibrationReadStreamer: b.buf[0:b.n]
  t,         \* CalibrationReadStreamer: b.t, the anchor
  err,       \* CalibrationReadStreamer: b.err, the sticky fault
  ms,        \* MealStreamer: the streamer the last operation returned
  recv,      \* MealStreamer: the receiver of the last operation
  heap,      \* MealStreamer: the Meal variables whose address was taken
  loopVarShared, \* whether the build shares one range variable across iterations
  calls,     \* the calls the store received, in order
  explicitFlush, \* CalibrationReadStreamer: a Flush call of the client wrote a batch
  inlineFlushes, \* CalibrationReadStreamer: the most batches one write call wrote so far
  ret,       \* what the last operation returned
  now,       \* import tasks: the time of the last task run
  taskqueue, \* import tasks: the bag of tasks pending on the task queue
  fileImportLog, \* import tasks: the FileImportLog entity of each file
  mostRecentRead, \* StoreDaysOfReads: GlukitUser.MostRecentRead in the datastore
  run,       \* import tasks and package store: how the last run that ended ended
  procs,     \* import tasks and package store: the frame of what each worker runs
  runs       \* import tasks: the number of runs started

streamVars == <<d, input, accepted, buf, t, err, ms, recv, heap, loopVarShared, calls,
                explicitFlush, inlineFlushes, ret>>
appVars == <<now, taskqueue, fileImportLog, mostRecentRead, run, procs, runs>>
vars == <<kind, streamVars, appVars>>

\* b.n, and Buffered()
n == Len(buf)
Buffered == n

\* The streamer as a value, for the operators below.
Streamer == [buf |-> buf, t |-> t, err |-> err]

\* ------------------------------------------- CalibrationReadStreamer
\* Mutant: the anchor rounded to the nearest multiple of dur (time.Time.Round).
TruncateRound(tm, dur) == ((2 * tm + dur) \div (2 * dur)) * dur

\* time.Time.Truncate: round down to a multiple of dur since the zero time.
Truncate(tm, dur) == tm - (tm % dur)

\* Mutant: the anchor is the record's own time, not truncated.
resetFirstReadNoTruncate(b, r) == [b EXCEPT !.t = GetTime(r)]

\* resetFirstReadOfBatch
resetFirstReadOfBatch(b, r) == [b EXCEPT !.t = Truncate(GetTime(r), d)]

\* Mutant: the boundary test off by one (> for >=).
BoundaryCrossedLate(tm, anchor, dur) == tm - anchor > dur

\* Mutant: the boundary test off by one the other way (a window one unit short).
BoundaryCrossedEarly(tm, anchor, dur) == tm - anchor >= dur - 1

\* t.Sub(b.t) >= b.d
BoundaryCrossed(tm, anchor, dur) == tm - anchor >= dur

\* copy(b.buf[b.n:], src): what fits in the rest of the buffer.
Copy(held, src) == SubSeq(src, 1, Min(Len(src), BUFFER_SIZE - Len(held)))

\* Mutant: a store that commits nothing and reports no error passes as success.
ShortWriteErrNone(nw, e) == e

\* if n < 1 && err == nil { err = glukitio.ErrShortWrite }
ShortWriteErr(nw, e) == IF nw < 1 /\ e = NoErr THEN ErrShortWrite ELSE e

\* copy(b.buf[0:b.n-n], b.buf[n:b.n]); b.n -= n
Compact(held, nw) == SubSeq(held, nw + 1, Len(held))

BatchCall(recs, out) == [op |-> "batch", recs |-> recs, n |-> out.n, err |-> out.err]
FlushCall(e) == [op |-> "flush", recs |-> <<>>, n |-> 0, err |-> e]

\* Mutant: Flush without the check of the recorded fault.
FlushNoSticky(b, cs, out) ==
  IF Len(b.buf) = 0 THEN [b |-> b, calls |-> cs, r |-> NoErr]
  ELSE LET e == ShortWriteErr(out.n, out.err)
           cs2 == Append(cs, BatchCall(b.buf, out))
       IN IF e # NoErr
          THEN [b |-> [b EXCEPT !.buf = Compact(b.buf, out.n), !.err = e],
                calls |-> cs2, r |-> e]
          ELSE [b |-> [b EXCEPT !.buf = <<>>], calls |-> cs2, r |-> NoErr]

\* Mutant: Flush without the check for an empty buffer.
FlushNoEmptyCheck(b, cs, out) ==
  IF b.err # NoErr THEN [b |-> b, calls |-> cs, r |-> b.err]
  ELSE LET e == ShortWriteErr(out.n, out.err)
           cs2 == Append(cs, BatchCall(b.buf, out))
       IN IF e # NoErr
          THEN [b |-> [b EXCEPT !.buf = Compact(b.buf, out.n), !.err = e],
                calls |-> cs2, r |-> e]
          ELSE [b |-> [b EXCEPT !.buf = <<>>], calls |-> cs2, r |-> NoErr]

\* Flush: b the streamer, cs the store's calls so far, out the store's answer
\* should it be called.  r is the error returned.
Flush(b, cs, out) ==
  IF b.err # NoErr THEN [b |-> b, calls |-> cs, r |-> b.err]
  ELSE IF Len(b.buf) = 0 THEN [b |-> b, calls |-> cs, r |-> NoErr]
  ELSE LET e == ShortWriteErr(out.n, out.err)
           cs2 == Append(cs, BatchCall(b.buf, out))
       IN IF e # NoErr
          THEN [b |-> [b EXCEPT !.buf = Compact(b.buf, out.n), !.err = e],
                calls |-> cs2, r |-> e]
          ELSE [b |-> [b EXCEPT !.buf = <<>>], calls |-> cs2, r |-> NoErr]

\* The outcomes of Flush, one for each answer the store may give.
FlushResults(b, cs) == { Flush(b, cs, out) : out \in CalOutcomes(b.buf) }

\* Mutant: the loop goes on after an inline flush that failed.
RECURSIVE WriteLoopNoAbort(_, _, _, _, _, _)
WriteLoopNoAbort(b, cs, p, i, j, nn) ==
  IF j > Len(p)
  THEN LET c == Copy(b.buf, SubSeq(p, i, Len(p)))
       IN { [b |-> [b EXCEPT !.buf = b.buf \o c], calls |-> cs,
             nn |-> nn + Len(c), r |-> NoErr] }
  ELSE IF BoundaryCrossed(GetTime(p[j]), b.t, d)
  THEN LET c == Copy(b.buf, SubSeq(p, i, j - 1))
       IN UNION { WriteLoopNoAbort(resetFirstReadOfBatch(f.b, p[j]), f.calls, p, j, j + 1,
                                   nn + Len(c)) :
                  f \in FlushResults([b EXCEPT !.buf = b.buf \o c], cs) }
  ELSE WriteLoopNoAbort(b, cs, p, i, j + 1, nn)

\* The range loop of WriteCalibrations from index j on; i is the start of the
\* run not yet copied, nn the count so far.  The set of its outcomes, one for
\* each sequence of answers of the store.
RECURSIVE WriteLoop(_, _, _, _, _, _)
WriteLoop(b, cs, p, i, j, nn) ==
  IF j > Len(p)
  THEN LET c == Copy(b.buf, SubSeq(p, i, Len(p)))
       IN { [b |-> [b EXCEPT !.buf = b.buf \o c], calls |-> cs,
             nn |-> nn + Len(c), r |-> NoErr] }
  ELSE IF BoundaryCrossed(GetTime(p[j]), b.t, d)
  THEN LET c == Copy(b.buf, SubSeq(p, i, j - 1))
       IN UNION { IF f.b.err # NoErr
                  THEN { [b |-> f.b, calls |-> f.calls, nn |-> nn + Len(c), r |-> f.b.err] }
                  ELSE WriteLoop(resetFirstReadOfBatch(f.b, p[j]), f.calls, p, j, j + 1,
                                 nn + Len(c)) :
                  f \in FlushResults([b EXCEPT !.buf = b.buf \o c], cs) }
  ELSE WriteLoop(b, cs, p, i, j + 1, nn)

\* WriteCalibrations(p): with nothing buffered p[0] is read, which panics on an
\* empty p before anything is changed.
WriteCalibrations(b, cs, p) ==
  IF Len(b.buf) = 0 /\ p = <<>>
  THEN { [b |-> b, calls |-> cs, nn |-> 0, r |-> Panic] }
  ELSE LET b0 == IF Len(b.buf) = 0 THEN resetFirstReadOfBatch(b, p[1]) ELSE b
       IN WriteLoop(b0, cs, p, 1, 1, 0)

\* WriteCalibration(c)
WriteCalibration(b, cs, c) ==
  IF b.err # NoErr
  THEN { [b |-> b, calls |-> cs, nn |-> 0, r |-> b.err] }
  ELSE WriteCalibrations(b, cs, <<c>>)

\* Mutant: Close calls the downstream Flush whatever the local flush returned.
CloseFlushesAnyway(b, cs) ==
  UNION { { [b |-> f.b, calls |-> Append(f.calls, FlushCall(fout)),
             r |-> IF f.r # NoErr THEN f.r ELSE fout] :
            fout \in FlushOutcomes } :
          f \in { Flush(b, cs, out) : out \in CalOutcomes(b.buf) } }

\* Mutant: Close records the error of the downstream Flush as the fault.
CloseRecordsFault(b, cs) ==
  UNION { IF f.r # NoErr
          THEN { [b |-> f.b, calls |-> f.calls, r |-> f.r] }
          ELSE { [b |-> [f.b EXCEPT !.err = fout],
                  calls |-> Append(f.calls, FlushCall(fout)), r |-> fout] :
                 fout \in FlushOutcomes } :
          f \in FlushResults(b, cs) }

\* Close: the downstream writer's Flush answers any of FlushOutcomes.
Close(b, cs) ==
  UNION { IF f.r # NoErr
          THEN { [b |-> f.b, calls |-> f.calls, r |-> f.r] }
          ELSE { [b |-> f.b, calls |-> Append(f.calls, FlushCall(fout)), r |-> fout] :
                 fout \in FlushOutcomes } :
          f \in FlushResults(b, cs) }

\* ------------------------------------------------------ MealStreamer
\* container.ImmutableList: a list as the sequence of its values from the head.
NewImmutableList(next, value) == <<value>> \o next

\* ImmutableList.ReverseList: the reversed list and its size (nil gives nil, 0).
ReverseList(l) == [r |-> [k \in 1..Len(l) |-> l[Len(l) + 1 - k]], size |-> Len(l)]

\* Mutant: the array filled from its last slot down.
ListToArrayFromBack(head, size) == [k \in 1..size |-> head[size + 1 - k]]

\* ListToArrayOfMealReads
ListToArrayOfMealReads(head, size) == [k \in 1..size |-> head[k]]

\* The Meal variables a streamer points to: h[a] is the value now held by the
\* variable at address a, and address 0 is nil.
Deref(h, a) == IF a = 0 THEN NilRec ELSE h[a]

\* newMealStreamerDuration(head, tailVal, wr, d): tailVal is an address.
newMealStreamerDuration(head, tailVal, wr) ==
  [isNil |-> FALSE, head |-> head, tailVal |-> tailVal, wr |-> wr]

\* The nil *MealStreamer.
NilStreamer == [isNil |-> TRUE, head |-> <<>>, tailVal |-> 0, wr |-> 0]

\* The handle the store returns from its next call.
NewHandle(cs) == Len(cs) + 2

MealBatchCall(recs, h, e, hr) == [op |-> "batch", recs |-> recs, n |-> 0, err |-> e, h |-> h, hr |-> hr]
MealFlushCall(h, e, hr) == [op |-> "flush", recs |-> <<>>, n |-> 0, err |-> e, h |-> h, hr |-> hr]

\* MealStreamer.Flush
MealFlush(b, cs, out) ==
  LET rl == ReverseList(b.head)
      batch == ListToArrayOfMealReads(rl.r, rl.size)
      innerWriter == NewHandle(cs)
  IN IF Len(batch) > 0
     THEN IF out # NoErr
          THEN [s |-> NilStreamer, err |-> out,
                calls |-> Append(cs, MealBatchCall(batch, b.wr, out, innerWriter))]
          ELSE [s |-> newMealStreamerDuration(<<>>, 0, innerWriter), err |-> NoErr,
                calls |-> Append(cs, MealBatchCall(batch, b.wr, out, innerWriter))]
     ELSE [s |-> newMealStreamerDuration(<<>>, 0, b.wr), err |-> NoErr,
           calls |-> cs]

\* The outcomes of MealStreamer.Flush, one for each answer the store may give.
MealFlushResults(b, cs) == { MealFlush(b, cs, out) : out \in MealOutcomes }

\* Mutant: the range variable is one variable shared by every WriteMeals call.
LoopVarStatic(base, j) == 1

\* for _, c := range p: the address of the range variable c at iteration j of
\* a loop entered when base variables were allocated.  A build that shares
\* the variable has one for the whole loop, the other a new one each iteration.
LoopVar(base, j) == IF loopVarShared THEN base + 1 ELSE base + j

\* c = p[j]: the assignment to the range variable at address a.
RangeAssign(h, a, c) == IF a > Len(h) THEN Append(h, c) ELSE [h EXCEPT ![a] = c]

\* The range loop of WriteMeals from index j on: the set of its outcomes, one
\* for each sequence of answers of the store.
RECURSIVE MealLoop(_, _, _, _, _, _)
MealLoop(s, h0, cs, p, j, base) ==
  IF j > Len(p)
  THEN { [s |-> s, err |-> NoErr, calls |-> cs, heap |-> h0] }
  ELSE LET a == LoopVar(base, j)
           h == RangeAssign(h0, a, p[j])
           c == h[a]
       IN IF s.head = <<>>
          THEN MealLoop(newMealStreamerDuration(NewImmutableList(<<>>, c), a, s.wr),
                        h, cs, p, j + 1, base)
          ELSE IF BoundaryCrossed(GetTime(c), GetTime(Deref(h, s.tailVal)), d)
          THEN UNION { IF f.err # NoErr
                       THEN { [s |-> f.s, err |-> f.err, calls |-> f.calls, heap |-> h] }
                       ELSE MealLoop(newMealStreamerDuration(NewImmutableList(<<>>, c), a, f.s.wr),
                                     h, f.calls, p, j + 1, base) :
                       f \in MealFlushResults(s, cs) }
          ELSE MealLoop(newMealStreamerDuration(NewImmutableList(s.head, c), s.tailVal, s.wr),
                        h, cs, p, j + 1, base)

\* WriteMeals(p)
WriteMeals(b, h, cs, p) ==
  MealLoop(newMealStreamerDuration(b.head, b.tailVal, b.wr), h, cs, p, 1, Len(h))

\* WriteMeal(c)
WriteMeal(b, h, cs, c) == WriteMeals(b, h, cs, <<c>>)

\* MealStreamer.Close: the downstream writer's Flush answers any of FlushOutcomes.
MealClose(b, cs) ==
  UNION { IF g.err # NoErr
          THEN { g }
          ELSE LET innerWriter == NewHandle(g.calls)
               IN { IF fout # NoErr
                    THEN [s |-> newMealStreamerDuration(g.s.head, g.s.tailVal, innerWriter),
                          err |-> fout,
                          calls |-> Append(g.calls, MealFlushCall(g.s.wr, fout, innerWriter))]
                    ELSE [s |-> g.s, err |-> NoErr,
                          calls |-> Append(g.calls, MealFlushCall(g.s.wr, fout, innerWriter))] :
                    fout \in FlushOutcomes } :
          g \in MealFlushResults(b, cs) }

\* ------------------------------------------------------- store.go
\* time.Hour in the model's unit of time, and the day AddDate(0, 0, 1) adds.
HOUR == 1
DAY == 24 * HOUR

\* util.GLUKIT_EPOCH_TIME, the beginning of time for imports.
GLUKIT_EPOCH_TIME == 0

\* The ids of the files on the user's drive.
Files == {1, 2}

ErrNoSuchEntity == "ErrNoSuchEntity"
StoreError == "StoreError"
ErrRefresh == "ErrRefresh"
ErrSearch == "ErrSearch"
ErrRead == "ErrRead"
ErrParse == "ErrParse"
ErrPut == "ErrPut"
ErrGet == "ErrGet"
ErrTask == "ErrTask"
ErrAdd == "ErrAdd"
ErrBatch == "ErrBatch"

\* The workers that serve requests and run tasks side by side.
Workers == {1, 2}

\* A worker that runs no request or task.
Idle == [fn |-> "none", pc |-> "idle"]

\* A day of reads is the sequence of the timestamps of its reads; the profile
\* of the user is its MostRecentRead.

\* util.Propagate(error): panics when the error is not nil.
Propagate(error) == error # NoErr

\* StoreUserProfile: datastore.Put of the profile the caller holds, whatever
\* the datastore holds; the error of the Put goes to util.Propagate and the
\* function returns a nil error otherwise.
StoreUserProfile(stored, userProfile, put) ==
  IF Propagate(put) THEN [err |-> Panic, MostRecentRead |-> stored]
  ELSE [err |-> NoErr, MostRecentRead |-> userProfile]

\* GetUserProfile: datastore.Get of the profile.
GetUserProfile(stored, get) ==
  IF get # NoErr THEN [err |-> get, MostRecentRead |-> GLUKIT_EPOCH_TIME]
  ELSE [err |-> NoErr, MostRecentRead |-> stored]

\* GetUserData: the profile, or the error of GetUserProfile.
GetUserData(stored, get) == GetUserProfile(stored, get)

\* The FileImportLog of a file never imported (datastore.ErrNoSuchEntity).
NoLog == [logged |-> FALSE, LastDataProcessed |-> GLUKIT_EPOCH_TIME, ImportResult |-> ""]

\* LogFileImport: datastore.Put of the log of a file, one entity for each file.
LogFileImport(log, file, fileImport, put) ==
  IF put # NoErr THEN [err |-> put, fileImportLog |-> log]
  ELSE [err |-> NoErr, fileImportLog |-> [log EXCEPT ![file] = fileImport]]

\* GetFileImportLog: datastore.Get of the log of a file.
GetFileImportLog(log, file, get) ==
  IF get # NoErr THEN [err |-> get, fileImport |-> NoLog]
  ELSE IF ~log[file].logged THEN [err |-> ErrNoSuchEntity, fileImport |-> NoLog]
  ELSE [err |-> NoErr, fileImport |-> log[file]]

\* A call of StoreDaysOfReads that returned e.
Returns(f, e) == [f EXCEPT !.pc = "ret", !.err = e]

\* StoreDaysOfReads up to its first call of the datastore: the key of a day is
\* the timestamp of its first read, so a day without reads panics before
\* anything is written.  The frame keeps elementKeys, whether the batch is
\* empty and the time of the last read of the last day, which is all the
\* function uses of daysOfReads later.
EnterStoreDaysOfReads(daysOfReads) ==
  LET f == [fn |-> "StoreDaysOfReads", pc |-> "PutMulti", err |-> NoErr,
            keys |-> <<>>, empty |-> daysOfReads = <<>>, last |-> GLUKIT_EPOCH_TIME,
            wrote |-> FALSE]
  IN IF \E i \in 1..Len(daysOfReads) : daysOfReads[i] = <<>>
     THEN Returns(f, Panic)
     ELSE [f EXCEPT !.keys = [i \in 1..Len(daysOfReads) |-> daysOfReads[i][1]],
                    !.last = IF daysOfReads = <<>> THEN GLUKIT_EPOCH_TIME
                             ELSE daysOfReads[Len(daysOfReads)]
                                             [Len(daysOfReads[Len(daysOfReads)])]]

\* StoreDaysOfReads from one call of the datastore to the next: f.pc is the call
\* it waits on (PutMulti of the days, Get of the profile, Put of the profile),
\* answer what the datastore answers, stored the MostRecentRead the datastore
\* holds at that moment.  The Get and the Put are not in a transaction.  An
\* empty batch panics at daysOfReads[len(daysOfReads)-1], after the Get.
StoreDaysOfReads(f, stored, answer) ==
  IF f.pc = "PutMulti"
  THEN [f |-> IF answer # NoErr THEN Returns([f EXCEPT !.keys = <<>>], answer)
              ELSE [f EXCEPT !.pc = "Get"],
        MostRecentRead |-> stored]
  ELSE IF f.pc = "Get"
  THEN LET userProfile == GetUserProfile(stored, answer)
       IN [f |-> IF userProfile.err # NoErr
                 THEN Returns([f EXCEPT !.keys = <<>>], userProfile.err)
                 ELSE IF f.empty THEN Returns([f EXCEPT !.keys = <<>>], Panic)
                 ELSE IF userProfile.MostRecentRead < f.last THEN [f EXCEPT !.pc = "Put"]
                 ELSE Returns(f, NoErr),
           MostRecentRead |-> stored]
  ELSE LET w == StoreUserProfile(stored, f.last, answer)
       IN [f |-> IF w.err # NoErr THEN Returns([f EXCEPT !.keys = <<>>], w.err)
                 ELSE Returns([f EXCEPT !.wrote = TRUE], NoErr),
           MostRecentRead |-> w.MostRecentRead]

\* ------------------------------------------- import tasks (package main)
\* The instants at which a request or a task may start.
Clock == {0, HOUR, DAY}

\* processFile.Task(token, file, userEmail, userKey) with its ETA, on the queue
\* DATASTORE_WRITES_QUEUE_NAME.
FileTask(file, eta) ==
  [fn |-> "processSingleFile", file |-> file, auto |-> FALSE, eta |-> eta,
   queue |-> "datastore-writes"]

\* refreshUserData.Task(userEmail, autoScheduleNextRun) with its ETA, on the
\* queue "refresh".
RefreshTask(auto, eta) ==
  [fn |-> "refreshUserData", file |-> 0, auto |-> auto, eta |-> eta, queue |-> "refresh"]

\* The answers to an attempt to enqueue: of delay.Func.Task, then of
\* taskqueue.Add.
EnqueueAnswers == {NoErr, ErrTask, ErrAdd}

\* taskqueue.Add(context, task, queue): the task is pending when the queue
\* answers nil, and the queue is as it was otherwise.
Add(q, task, add) ==
  IF add # NoErr THEN [err |-> add, taskqueue |-> q]
  ELSE [err |-> NoErr, taskqueue |-> q (+) SetToBag({task})]

\* enqueueFileImport: returns the error of processFile.Task before anything is
\* enqueued, the error of taskqueue.Add otherwise.
enqueueFileImport(q, nw, file, delay, answer) ==
  IF answer = ErrTask THEN [err |-> ErrTask, taskqueue |-> q]
  ELSE Add(q, FileTask(file, nw + delay), answer)

\* What importer.SearchDataFiles answers: an error, or the files found.
SearchOutcomes ==
  {[err |-> ErrSearch, files |-> <<>>]}
    \cup {[err |-> NoErr, files |-> fs] : fs \in {<<>>, <<1>>, <<1, 2>>}}

\* What datastore.Get of the user and Token.Expired() answer.
UserOutcomes ==
  {[err |-> e, expired |-> FALSE] : e \in {NoErr, ErrNoSuchEntity, StoreError}}
    \cup {[err |-> NoErr, expired |-> TRUE]}

\* A run that returned, and a run that panicked.
Ended(f) == [f EXCEPT !.pc = "ret"]
Panicked(f) == [f EXCEPT !.pc = "panic"]

\* The state the tasks share: the queue, the logs and the profile.
World(q, log, mrr) == [taskqueue |-> q, fileImportLog |-> log, mostRecentRead |-> mrr]

\* A run of updateUserData at its first statement.  The frame holds the local
\* variables: the profile GetUserData read (its MostRecentRead), nextUpdate
\* (at + DAY, at being time.Now() as read before the file search), the files
\* still to enqueue and enqAt, time.Now() as enqueueFileImport read it before
\* the taskqueue.Add in flight.
EnterUpdateUserData(autoScheduleNextRun) ==
  [fn |-> "updateUserData", pc |-> "GetUserData", auto |-> autoScheduleNextRun,
   glukitUser |-> GLUKIT_EPOCH_TIME, at |-> 0, files |-> <<>>, enqAt |-> 0]

\* What engine.StartGlukitScoreBatch and engine.StartA1CCalculationBatch
\* answer.  The tasks log their errors and read nothing back of what they do.
BatchAnswers == {NoErr, ErrBatch}

\* The statement after the files are enqueued: the start of the batches.
AfterFiles(f) == [f EXCEPT !.pc = "StartGlukitScoreBatch"]

\* updateUserData from one remote call to the next: f.pc is the call it waits
\* on, answer what the call answers, w the shared state and nw time.Now() at
\* that moment, which is what the statements up to the next call read: nextUpdate
\* is taken before importer.SearchDataFiles is called, the ETA of a file task
\* before taskqueue.Add is called.  A StoreError of GetUserData passes the guard with a nil user,
\* whose Token is then dereferenced; the error of refreshUserData.Task is
\* logged and the nil task dereferenced; the results of enqueueFileImport, of
\* the engine batches and of the last taskqueue.Add are dropped.
updateUserData(f, w, nw, answer) ==
  IF f.pc = "GetUserData"
  THEN LET u == GetUserData(w.mostRecentRead, answer.err)
           g == [f EXCEPT !.glukitUser = u.MostRecentRead]
       IN [f |-> IF u.err = StoreError THEN Panicked(g)
                 ELSE IF u.err # NoErr THEN Ended(g)
                 ELSE IF answer.expired THEN [g EXCEPT !.pc = "Refresh"]
                 ELSE [g EXCEPT !.at = nw, !.pc = "SearchDataFiles"],
           w |-> w]
  ELSE IF f.pc = "Refresh"
  THEN [f |-> IF answer # NoErr THEN Ended(f)
              ELSE [f EXCEPT !.pc = "StoreUserProfile"],
        w |-> w]
  ELSE IF f.pc = "StoreUserProfile"
  THEN LET s == StoreUserProfile(w.mostRecentRead, f.glukitUser, answer)
       IN [f |-> IF s.err # NoErr THEN Panicked(f)
                 ELSE [f EXCEPT !.at = nw, !.pc = "SearchDataFiles"],
           w |-> [w EXCEPT !.mostRecentRead = s.MostRecentRead]]
  ELSE IF f.pc = "SearchDataFiles"
  THEN LET g == [f EXCEPT !.files = answer.files]
       IN [f |-> IF answer.err = NoErr /\ answer.files # <<>>
                 THEN [g EXCEPT !.enqAt = nw, !.pc = "enqueueFileImport"]
                 ELSE AfterFiles(g),
           w |-> w]
  ELSE IF f.pc = "enqueueFileImport"
  THEN LET e == enqueueFileImport(w.taskqueue, f.enqAt, Head(f.files), 0, answer)
           g == [f EXCEPT !.files = Tail(f.files)]
       IN [f |-> IF g.files = <<>> THEN AfterFiles(g) ELSE [g EXCEPT !.enqAt = nw],
           w |-> [w EXCEPT !.taskqueue = e.taskqueue]]
  ELSE IF f.pc = "StartGlukitScoreBatch"
  THEN [f |-> [f EXCEPT !.pc = "StartA1CCalculationBatch"], w |-> w]
  ELSE IF f.pc = "StartA1CCalculationBatch"
  THEN [f |-> IF f.auto THEN [f EXCEPT !.pc = "Task"] ELSE Ended(f), w |-> w]
  ELSE IF answer = ErrTask
  THEN [f |-> Panicked(f), w |-> w]
  ELSE LET e == Add(w.taskqueue, RefreshTask(f.auto, f.at + DAY), answer)
       IN [f |-> Ended(f), w |-> [w EXCEPT !.taskqueue = e.taskqueue]]

\* What importer.ParseContent finds in the file from startTime on: an error
\* before anything is stored, nothing new, or a day of reads that it hands to
\* store.StoreDaysOfReads.
ParseOutcomes ==
  {[err |-> ErrParse, days |-> <<>>], [err |-> NoErr, days |-> <<>>],
   [err |-> NoErr, days |-> <<<<HOUR>>>>]}

\* A run of processSingleFile at its first statement.  The frame holds the
\* local variables: startTime, the call of StoreDaysOfReads that ParseContent
\* makes, what ParseContent returned (lastReadTime, perr) and enqAt,
\* time.Now() as enqueueFileImport read it before the taskqueue.Add in flight.
EnterProcessSingleFile(file) ==
  [fn |-> "processSingleFile", pc |-> "GetFileReader", file |-> file,
   startTime |-> GLUKIT_EPOCH_TIME, sdr |-> Idle, perr |-> NoErr,
   lastReadTime |-> GLUKIT_EPOCH_TIME, enqAt |-> 0]

\* processSingleFile once importer.ParseContent has returned (lastReadTime, e)
\* at time nw: on an error enqueueFileImport builds the retry and reads
\* time.Now() before it calls taskqueue.Add.
Parsed(f, lastReadTime, e, nw) ==
  [f EXCEPT !.perr = e, !.lastReadTime = lastReadTime, !.sdr = Idle,
            !.enqAt = IF e # NoErr THEN nw ELSE @,
            !.pc = IF e # NoErr THEN "Retry" ELSE "LogFileImport"]

\* processSingleFile from one remote call to the next: f.pc is the call it
\* waits on, answer what the call answers, w the shared state and nw
\* time.Now() at that moment, which is what the statements up to the next call
\* read.  An error of GetFileImportLog other than
\* ErrNoSuchEntity goes to util.Propagate; the results of enqueueFileImport and
\* of LogFileImport are dropped; after a parse without error the profile is
\* read and the engine batches are started; channel.Send is the last
\* statement, and sent is what it sends.
processSingleFile(f, w, nw, answer) ==
  IF f.pc = "GetFileReader"
  THEN [f |-> IF answer # NoErr THEN [f EXCEPT !.pc = "Send"]
              ELSE [f EXCEPT !.pc = "GetFileImportLog"],
        w |-> w, sent |-> <<>>]
  ELSE IF f.pc = "GetFileImportLog"
  THEN LET g == GetFileImportLog(w.fileImportLog, f.file, answer)
       IN [f |-> IF g.err = NoErr
                 THEN [f EXCEPT !.startTime = g.fileImport.LastDataProcessed,
                                !.pc = "ParseContent"]
                 ELSE IF g.err = ErrNoSuchEntity THEN [f EXCEPT !.pc = "ParseContent"]
                 ELSE Panicked(f),
           w |-> w, sent |-> <<>>]
  ELSE IF f.pc = "ParseContent"
  THEN [f |-> IF answer.err # NoErr \/ answer.days = <<>>
              THEN Parsed(f, f.startTime, answer.err, nw)
              ELSE [f EXCEPT !.sdr = EnterStoreDaysOfReads(answer.days),
                             !.pc = "StoreDaysOfReads"],
        w |-> w, sent |-> <<>>]
  ELSE IF f.pc = "StoreDaysOfReads"
  THEN LET s == StoreDaysOfReads(f.sdr, w.mostRecentRead, answer)
       IN [f |-> IF s.f.pc # "ret" THEN [f EXCEPT !.sdr = s.f]
                 ELSE IF s.f.err = Panic THEN Panicked([f EXCEPT !.sdr = Idle])
                 ELSE IF s.f.err # NoErr THEN Parsed(f, f.startTime, s.f.err, nw)
                 ELSE Parsed(f, s.f.last, NoErr, nw),
           w |-> [w EXCEPT !.mostRecentRead = s.MostRecentRead], sent |-> <<>>]
  ELSE IF f.pc = "Retry"
  THEN LET e == enqueueFileImport(w.taskqueue, f.enqAt, f.file, HOUR, answer)
       IN [f |-> [f EXCEPT !.pc = "LogFileImport"],
           w |-> [w EXCEPT !.taskqueue = e.taskqueue], sent |-> <<>>]
  ELSE IF f.pc = "LogFileImport"
  THEN LET errMessage == IF f.perr = NoErr THEN "Success" ELSE f.perr
           l == LogFileImport(w.fileImportLog, f.file,
                              [logged |-> TRUE, LastDataProcessed |-> f.lastReadTime,
                               ImportResult |-> errMessage], answer)
       IN [f |-> [f EXCEPT !.pc = IF f.perr = NoErr THEN "GetUserProfile" ELSE "Send"],
           w |-> [w EXCEPT !.fileImportLog = l.fileImportLog], sent |-> <<>>]
  ELSE IF f.pc = "GetUserProfile"
  THEN LET u == GetUserProfile(w.mostRecentRead, answer)
       IN [f |-> [f EXCEPT !.pc = IF u.err # NoErr THEN "Send"
                                  ELSE "StartGlukitScoreBatch"],
           w |-> w, sent |-> <<>>]
  ELSE IF f.pc = "StartGlukitScoreBatch"
  THEN [f |-> [f EXCEPT !.pc = "StartA1CCalculationBatch"], w |-> w, sent |-> <<>>]
  ELSE IF f.pc = "StartA1CCalculationBatch"
  THEN [f |-> [f EXCEPT !.pc = "Send"], w |-> w, sent |-> <<>>]
  ELSE [f |-> Ended(f), w |-> w, sent |-> <<"Refresh">>]

\* ------------------------------------------------------- environment
\* The least time the next record may carry: the source pushes records sorted
\* by time, oldest to most recent, and two records may carry the same time.
NextTime == IF input = <<>> THEN 0 ELSE GetTime(input[Len(input)])

IsSorted(ts) == \A k \in 1..(Len(ts) - 1) : ts[k] <= ts[k + 1]

\* The inputs a write call may carry next: sorted by time, not older than
\* what was offered before; the empty slice is one of them.
NextInputs ==
  UNION { { [k \in 1..len |-> Record(Len(input) + k, ts[k])] :
              ts \in { x \in [1..len -> NextTime..MaxTime] : IsSorted(x) } } :
          len \in 0..Min(MaxLen, MaxRecs - Len(input)) }

Returned(op, e, nn, len, cs) ==
  [op |-> op, err |-> e, nn |-> nn, len |-> len, ncalls |-> Len(cs) - Len(calls)]

\* NewCalibrationReadStreamerDuration / NewMealStreamerDuration
Init ==
  /\ kind \in {"cal", "meal", "import", "store"}
  /\ d \in (IF kind \in {"cal", "meal"} THEN Durations ELSE {0})
  /\ loopVarShared \in (IF kind = "meal" THEN BOOLEAN ELSE {FALSE})
  /\ input = <<>>
  /\ accepted = <<>>
  /\ buf = <<>>
  /\ t = 0
  /\ err = NoErr
  /\ ms = newMealStreamerDuration(<<>>, 0, 1)
  /\ recv = NilStreamer
  /\ heap = <<>>
  /\ calls = <<>>
  /\ explicitFlush = FALSE
  /\ inlineFlushes = 0
  /\ ret = [op |-> "New", err |-> NoErr, nn |-> 0, len |-> 0, ncalls |-> 0]
  /\ now = 0
  /\ taskqueue = EmptyBag
  /\ fileImportLog = [f \in Files |-> NoLog]
  /\ mostRecentRead = GLUKIT_EPOCH_TIME
  /\ run = Idle
  /\ procs = [p \in Workers |-> Idle]
  /\ runs = 0

SetCal(w, op, len) ==
  /\ Len(w.calls) <= MaxCalls
  /\ buf' = w.b.buf
  /\ t' = w.b.t
  /\ err' = w.b.err
  /\ calls' = w.calls
  /\ explicitFlush' = (explicitFlush \/ (op = "Flush" /\ w.calls # calls))
  /\ inlineFlushes' = IF op \in {"WriteCalibrations", "WriteCalibration"}
                         /\ Len(w.calls) - Len(calls) > inlineFlushes
                      THEN Len(w.calls) - Len(calls)
                      ELSE inlineFlushes
  /\ ret' = Returned(op, w.r, w.nn, len, w.calls)
  /\ UNCHANGED <<kind, d, ms, recv, heap, loopVarShared, appVars>>

CallWriteCalibrations ==
  /\ kind = "cal"
  /\ \E p \in NextInputs :
       \E w \in WriteCalibrations(Streamer, calls, p) :
          /\ SetCal(w, "WriteCalibrations", Len(p))
          /\ input' = input \o p
          /\ accepted' = accepted \o SubSeq(p, 1, w.nn)

CallWriteCalibration ==
  /\ kind = "cal"
  /\ \E p \in { q \in NextInputs : Len(q) = 1 } :
       \E w \in WriteCalibration(Streamer, calls, p[1]) :
          /\ SetCal(w, "WriteCalibration", 1)
          /\ input' = input \o p
          /\ accepted' = accepted \o SubSeq(p, 1, w.nn)

CallFlush ==
  /\ kind = "cal"
  /\ \E f \in FlushResults(Streamer, calls) :
       /\ SetCal([b |-> f.b, calls |-> f.calls, r |-> f.r, nn |-> 0], "Flush", 0)
       /\ UNCHANGED <<input, accepted>>

CallClose ==
  /\ kind = "cal"
  /\ \E f \in Close(Streamer, calls) :
       /\ SetCal([b |-> f.b, calls |-> f.calls, r |-> f.r, nn |-> 0], "Close", 0)
       /\ UNCHANGED <<input, accepted>>

SetMeal(w, h, op, len) ==
  /\ Len(w.calls) <= MaxCalls
  /\ ms' = w.s
  /\ recv' = ms
  /\ heap' = h
  /\ calls' = w.calls
  /\ ret' = Returned(op, w.err, 0, len, w.calls)
  /\ UNCHANGED <<kind, d, buf, t, err, accepted, loopVarShared, explicitFlush,
                 inlineFlushes, appVars>>

CallWriteMeals ==
  /\ kind = "meal"
  /\ ~ms.isNil
  /\ \E p \in NextInputs :
       \E w \in WriteMeals(ms, heap, calls, p) :
          /\ SetMeal(w, w.heap, "WriteMeals", Len(p))
          /\ input' = input \o p

CallWriteMeal ==
  /\ kind = "meal"
  /\ ~ms.isNil
  /\ \E p \in { q \in NextInputs : Len(q) = 1 } :
       \E w \in WriteMeal(ms, heap, calls, p[1]) :
          /\ SetMeal(w, w.heap, "WriteMeal", 1)
          /\ input' = input \o p

CallMealFlush ==
  /\ kind = "meal"
  /\ ~ms.isNil
  /\ \E w \in MealFlushResults(ms, calls) :
       /\ SetMeal(w, heap, "Flush", 0)
       /\ UNCHANGED input

CallMealClose ==
  /\ kind = "meal"
  /\ ~ms.isNil
  /\ \E w \in MealClose(ms, calls) :
       /\ SetMeal(w, heap, "Close", 0)
       /\ UNCHANGED input

\* The shared state as the operators take it.
Shared == World(taskqueue, fileImportLog, mostRecentRead)

\* What the call a run of updateUserData waits on may answer.
UpdateAnswers(f) ==
  IF f.pc = "GetUserData" THEN UserOutcomes
  ELSE IF f.pc = "Refresh" THEN {NoErr, ErrRefresh}
  ELSE IF f.pc = "StoreUserProfile" THEN {NoErr, ErrPut}
  ELSE IF f.pc = "SearchDataFiles" THEN SearchOutcomes
  ELSE IF f.pc \in {"StartGlukitScoreBatch", "StartA1CCalculationBatch"} THEN BatchAnswers
  ELSE EnqueueAnswers

\* What the datastore may answer to a call of StoreDaysOfReads.
StoreAnswers(f) == IF f.pc = "Get" THEN {NoErr, ErrGet} ELSE {NoErr, ErrPut}

\* What the call a run of processSingleFile waits on may answer.
FileAnswers(f) ==
  IF f.pc = "GetFileReader" THEN {NoErr, ErrRead}
  ELSE IF f.pc = "GetFileImportLog" THEN {NoErr, ErrGet}
  ELSE IF f.pc = "ParseContent" THEN ParseOutcomes
  ELSE IF f.pc = "StoreDaysOfReads" THEN StoreAnswers(f.sdr)
  ELSE IF f.pc = "Retry" THEN EnqueueAnswers
  ELSE IF f.pc = "LogFileImport" THEN {NoErr, ErrPut}
  ELSE IF f.pc = "GetUserProfile" THEN {NoErr, ErrGet}
  ELSE IF f.pc \in {"StartGlukitScoreBatch", "StartA1CCalculationBatch"} THEN BatchAnswers
  ELSE {NoErr}

\* What is kept of a run that ended: the function, how it ended and what it
\* sent to the user's channel.
RunOf(f, sent) == [fn |-> f.fn, pc |-> f.pc, sent |-> sent]

\* Worker p goes on as frame f in the shared state w.  A run that ended leaves
\* the worker idle.
Finish(p, f, w, sent) ==
  /\ BagCardinality(w.taskqueue) <= MaxTasks
  /\ taskqueue' = w.taskqueue
  /\ fileImportLog' = w.fileImportLog
  /\ mostRecentRead' = w.mostRecentRead
  /\ procs' = [procs EXCEPT ![p] = IF f.pc \in {"ret", "panic"} THEN Idle ELSE f]
  /\ run' = IF f.pc \in {"ret", "panic"} THEN RunOf(f, sent) ELSE run
  /\ UNCHANGED <<kind, streamVars, now, runs>>

\* updateUserData called for a user, not from the queue.
CallUpdateUserData(p) ==
  /\ kind = "import"
  /\ procs[p] = Idle
  /\ runs < MaxRuns
  /\ \E nw \in { x \in Clock : x >= now }, autoScheduleNextRun \in BOOLEAN :
       /\ procs' = [procs EXCEPT ![p] = EnterUpdateUserData(autoScheduleNextRun)]
       /\ now' = nw
  /\ runs' = runs + 1
  /\ UNCHANGED <<kind, streamVars, taskqueue, fileImportLog, mostRecentRead, run>>

\* The queue hands a task that is due to worker p: refreshUserData runs
\* updateUserData, processFile runs processSingleFile.
RunTask(p) ==
  /\ kind = "import"
  /\ procs[p] = Idle
  /\ runs < MaxRuns
  /\ runs' = runs + 1
  /\ \E nw \in { x \in Clock : x >= now } :
       \E task \in { x \in BagToSet(taskqueue) : x.eta <= nw } :
          /\ taskqueue' = taskqueue (-) SetToBag({task})
          /\ procs' = [procs EXCEPT ![p] =
                         IF task.fn = "refreshUserData"
                         THEN EnterUpdateUserData(task.auto)
                         ELSE EnterProcessSingleFile(task.file)]
          /\ now' = nw
  /\ UNCHANGED <<kind, streamVars, fileImportLog, mostRecentRead, run>>

\* The call worker p's run of updateUserData waits on answers.
StepUpdateUserData(p) ==
  /\ kind = "import"
  /\ procs[p].fn = "updateUserData"
  /\ \E answer \in UpdateAnswers(procs[p]) :
       LET r == updateUserData(procs[p], Shared, now, answer)
       IN Finish(p, r.f, r.w, <<>>)

\* The call worker p's run of processSingleFile waits on answers.
StepProcessSingleFile(p) ==
  /\ kind = "import"
  /\ procs[p].fn = "processSingleFile"
  /\ \E answer \in FileAnswers(procs[p]) :
       LET r == processSingleFile(procs[p], Shared, now, answer)
       IN Finish(p, r.f, r.w, r.sent)

\* The timestamps of the reads of a batch.
ReadTimes == {HOUR, 2 * HOUR, DAY}

\* The days of reads of a batch: up to two reads, in any order.
DayInputs ==
  {<<>>} \cup {<<a>> : a \in ReadTimes} \cup {<<a, c>> : a, c \in ReadTimes}

\* The batches given to StoreDaysOfReads: none, one or two days.
DaysOfReadsInputs ==
  {<<>>} \cup {<<day>> : day \in DayInputs}
         \cup {<<first, day>> : first \in {<<>>, <<DAY>>}, day \in DayInputs}

\* Worker p calls StoreDaysOfReads for the user.
CallStoreDaysOfReads(p) ==
  /\ kind = "store"
  /\ procs[p] = Idle
  /\ \E daysOfReads \in DaysOfReadsInputs :
       LET f == EnterStoreDaysOfReads(daysOfReads)
       IN /\ procs' = [procs EXCEPT ![p] = IF f.pc = "ret" THEN Idle ELSE f]
          /\ run' = IF f.pc = "ret" THEN [fn |-> f.fn, pc |-> f.pc, err |-> f.err, keys |-> f.keys]
                    ELSE run
  /\ UNCHANGED <<kind, streamVars, now, taskqueue, fileImportLog, mostRecentRead, runs>>

\* The datastore answers the call worker p's StoreDaysOfReads waits on.
StepStoreDaysOfReads(p) ==
  /\ kind = "store"
  /\ procs[p].fn = "StoreDaysOfReads"
  /\ \E answer \in StoreAnswers(procs[p]) :
       LET s == StoreDaysOfReads(procs[p], mostRecentRead, answer)
       IN /\ mostRecentRead' = s.MostRecentRead
          /\ procs' = [procs EXCEPT ![p] = IF s.f.pc = "ret" THEN Idle ELSE s.f]
          /\ run' = IF s.f.pc = "ret"
                    THEN [fn |-> s.f.fn, pc |-> s.f.pc, err |-> s.f.err, keys |-> s.f.keys]
                    ELSE run
  /\ UNCHANGED <<kind, streamVars, now, taskqueue, fileImportLog, runs>>

\* Worker p reads the profile of the user, as GetUserData does for
\* updateUserData, and holds it.
CallGetUserProfile(p) ==
  /\ kind = "store"
  /\ procs[p] = Idle
  /\ \E get \in {NoErr, ErrGet} :
       LET u == GetUserProfile(mostRecentRead, get)
       IN /\ procs' = [procs EXCEPT ![p] =
                         IF u.err # NoErr THEN Idle
                         ELSE [fn |-> "StoreUserProfile", pc |-> "Put",
                               userProfile |-> u.MostRecentRead]]
          /\ run' = IF u.err # NoErr
                    THEN [fn |-> "GetUserProfile", pc |-> "ret", err |-> u.err]
                    ELSE run
  /\ UNCHANGED <<kind, streamVars, now, taskqueue, fileImportLog, mostRecentRead, runs>>

\* Worker p stores the profile it holds, as updateUserData does once the
\* token is refreshed.
CallStoreUserProfile(p) ==
  /\ kind = "store"
  /\ procs[p].fn = "StoreUserProfile"
  /\ \E put \in {NoErr, ErrPut} :
       LET s == StoreUserProfile(mostRecentRead, procs[p].userProfile, put)
       IN /\ mostRecentRead' = s.MostRecentRead
          /\ run' = [fn |-> "StoreUserProfile", pc |-> "ret", err |-> s.err]
  /\ procs' = [procs EXCEPT ![p] = Idle]
  /\ UNCHANGED <<kind, streamVars, now, taskqueue, fileImportLog, runs>>

\* The operations of a CalibrationReadStreamer.
NextCal ==
  \/ CallWriteCalibrations
  \/ CallWriteCalibration
  \/ CallFlush
  \/ CallClose

\* The operations of a MealStreamer.
NextMeal ==
  \/ CallWriteMeals
  \/ CallWriteMeal
  \/ CallMealFlush
  \/ CallMealClose

\* The import tasks, each remote call a step of its own.
NextImport ==
  \E p \in Workers :
     \/ CallUpdateUserData(p)
     \/ RunTask(p)
     \/ StepUpdateUserData(p)
     \/ StepProcessSingleFile(p)

\* The calls of package store, each call of the datastore a step of its own.
NextStore ==
  \E p \in Workers :
     \/ CallStoreDaysOfReads(p)
     \/ StepStoreDaysOfReads(p)
     \/ CallGetUserProfile(p)
     \/ CallStoreUserProfile(p)

Next == NextCal \/ NextMeal \/ NextImport \/ NextStore

Spec == Init /\ [][Next]_vars

\* The behaviours of each kind on their own.
InitCal == Init /\ kind = "cal"
InitMeal == Init /\ kind = "meal"
InitStream == Init /\ kind \in {"cal", "meal"}
InitImport == Init /\ kind = "import"
InitStore == Init /\ kind = "store"
NextStream == NextCal \/ NextMeal
SpecCal == InitCal /\ [][NextCal]_vars
SpecMeal == InitMeal /\ [][NextMeal]_vars
SpecStream == InitStream /\ [][NextStream]_vars
SpecImport == InitImport /\ [][NextImport]_vars
SpecStore == InitStore /\ [][NextStore]_vars

\* ------------------------------------------------------------ claims
Last(sq) == sq[Len(sq)]

\* The calls the last operation made, in order.
NewCalls == SubSeq(calls, Len(calls) - ret.ncalls + 1, Len(calls))

BatchCalls(cs) == SelectSeq(cs, LAMBDA c : c.op = "batch")

\* The concatenation of the batches the store received.
RECURSIVE ConcatBatches(_)
ConcatBatches(cs) ==
  IF cs = <<>> THEN <<>>
  ELSE (IF cs[1].op = "batch" THEN cs[1].recs ELSE <<>>) \o ConcatBatches(Tail(cs))

\* The concatenation of the prefixes the store reported committed.
RECURSIVE Committed(_)
Committed(cs) ==
  IF cs = <<>> THEN <<>>
  ELSE (IF cs[1].op = "batch" THEN SubSeq(cs[1].recs, 1, cs[1].n) ELSE <<>>)
       \o Committed(Tail(cs))

Ids(sq) == { sq[k].id : k \in 1..Len(sq) }

\* The time between the first and the last record of a batch.
Span(recs) == GetTime(Last(recs)) - GetTime(recs[1])

\* Every WriteCalibrationBatch call committed the whole batch without error.
FullySucceeded(cs) ==
  \A k \in 1..Len(cs) : cs[k].op = "batch" => cs[k].err = NoErr /\ cs[k].n = Len(cs[k].recs)

\* Every WriteMealBatch call returned without error.
MealSucceeded(cs) == \A k \in 1..Len(cs) : cs[k].op = "batch" => cs[k].err = NoErr

\* C1: CalibrationReadStreamer, no loss and no duplication.  After writes and
\* a Close, if every WriteCalibrationBatch call fully succeeded, the batches
\* the store received concatenate to the input records in their order, and
\* each batch is non-empty and spans less than the duration.
C1_CalNoLossNoDup ==
  (kind = "cal" /\ ret.op = "Close" /\ FullySucceeded(calls)) =>
     /\ ConcatBatches(calls) = input
     /\ \A k \in 1..Len(calls) :
          calls[k].op = "batch" => Len(calls[k].recs) >= 1 /\ Span(calls[k].recs) < d

\* A closed calibration stream of three records that reached the store in
\* more than one batch, one of them holding two records.
C1_Witness ==
  /\ kind = "cal" /\ ret.op = "Close" /\ ret.err = NoErr /\ FullySucceeded(calls)
  /\ Len(input) >= 3
  /\ Len(BatchCalls(calls)) >= 2
  /\ \E k \in 1..Len(calls) : Len(calls[k].recs) >= 2

\* C2: MealStreamer, no loss and no duplication.  After writes and a Close,
\* if every WriteMealBatch call succeeded, the batches the store received
\* concatenate to the input meals in their order, and each batch is non-empty
\* and spans less than the duration.
C2_MealNoLossNoDup ==
  (kind = "meal" /\ ret.op = "Close" /\ MealSucceeded(calls)) =>
     /\ ConcatBatches(calls) = input
     /\ \A k \in 1..Len(calls) :
          calls[k].op = "batch" => Len(calls[k].recs) >= 1 /\ Span(calls[k].recs) < d

\* C3: short-write retention.  When Flush submits K records and the store
\* reports C < K committed, with or without an error, Flush returns an error,
\* records it as the fault, and the buffer holds the K-C uncommitted records
\* in order.
C3_ShortWriteRetention ==
  (kind = "cal" /\ ret.op = "Flush" /\ ret.ncalls = 1
     /\ Last(calls).n < Len(Last(calls).recs)) =>
     /\ ret.err # NoErr
     /\ err = ret.err
     /\ buf = SubSeq(Last(calls).recs, Last(calls).n + 1, Len(Last(calls).recs))
     /\ Buffered = Len(Last(calls).recs) - Last(calls).n

\* C4: no record is dropped.  Every record a write call counted as accepted
\* is in a prefix the store reported committed or in the buffer, and none is
\* in both.
C4_NeverDrops ==
  kind = "cal" =>
     /\ Ids(accepted) \subseteq Ids(Committed(calls)) \cup Ids(buf)
     /\ Ids(Committed(calls)) \cap Ids(buf) = {}

\* C5: sticky fault.  Once a fault is recorded, every operation leaves the
\* fault as it is and makes no call to the store or the downstream writer,
\* and every Flush and Close returns the recorded error.
C5_StickyFault ==
  [][(kind = "cal" /\ err # NoErr) =>
       /\ err' = err
       /\ calls' = calls
       /\ (ret'.op \in {"Flush", "Close"} => ret'.err = err)]_vars

\* A Flush or Close that returned the recorded error without calling the store.
C5_Witness ==
  /\ kind = "cal" /\ err # NoErr
  /\ ret.op \in {"Flush", "Close"} /\ ret.ncalls = 0 /\ ret.err = err
  /\ buf # <<>>

\* C6: when the store reports zero records committed and no error, the
\* operation that flushed returns the short-write error, the fault is that
\* error, and the buffer still holds the batch that was submitted.
C6_ZeroCommitIsFault ==
  (kind = "cal" /\ ret.ncalls >= 1 /\ Last(calls).op = "batch"
     /\ Last(calls).n = 0 /\ Last(calls).err = NoErr) =>
     /\ ret.err = ErrShortWrite
     /\ err = ErrShortWrite
     /\ buf = Last(calls).recs
     /\ Buffered = Len(Last(calls).recs)

\* A Flush whose batch of two the store answered with (0, nil).
C6_Witness ==
  /\ kind = "cal" /\ ret.op = "Flush" /\ ret.ncalls = 1
  /\ Last(calls).op = "batch" /\ Last(calls).n = 0 /\ Last(calls).err = NoErr
  /\ Len(Last(calls).recs) >= 2

\* C7: a failed WriteMealBatch yields a usable streamer whose open window
\* holds the records of the batch that failed.
C7_MealFailedFlushKeepsWindow ==
  (kind = "meal" /\ ret.ncalls >= 1 /\ Last(calls).op = "batch"
     /\ Last(calls).err # NoErr) =>
     /\ ~ms.isNil
     /\ ReverseList(ms.head).r = Last(calls).recs

\* The local flush of the last operation failed (the error is the store's or
\* the short write, not the downstream Flush's).
LocalFlushFailed == ret.err \notin {NoErr, ErrFlush}

\* C8: Close drains the chain.  The downstream Flush is the last call Close
\* makes, after the batch write if any; it is not called when the local flush
\* failed; when Close returns no error the downstream Flush was called and no
\* record remains buffered.
C8_CloseDrains ==
  ret.op = "Close" =>
     /\ \A k \in 1..(Len(NewCalls) - 1) : NewCalls[k].op = "batch"
     /\ (LocalFlushFailed => \A k \in 1..Len(NewCalls) : NewCalls[k].op = "batch")
     /\ (ret.err = NoErr =>
           /\ Len(NewCalls) >= 1
           /\ Last(NewCalls).op = "flush"
           /\ (kind = "cal" => Buffered = 0)
           /\ (kind = "meal" => ~ms.isNil /\ ms.head = <<>>))

\* A Close that wrote a batch, then flushed downstream, and returned no error.
C8_Witness ==
  /\ kind = "cal" /\ ret.op = "Close" /\ ret.err = NoErr /\ ret.ncalls = 2
  /\ calls[Len(calls) - 1].op = "batch"

\* C9: idempotent close.  A Close right after a Close that returned no error
\* makes no call to the store or the downstream writer and returns no error.
C9_IdempotentClose ==
  [][(ret.op = "Close" /\ ret.err = NoErr /\ ret'.op = "Close") =>
       (calls' = calls /\ ret'.err = NoErr)]_vars

AllBatchesNonEmpty ==
  \A k \in 1..Len(calls) : calls[k].op = "batch" => Len(calls[k].recs) >= 1

\* C10 as stated: no batch call is empty, and Flush on a buffer with zero
\* pending records makes no store call and returns no error.
C10_NoEmptyBatch ==
  /\ []AllBatchesNonEmpty
  /\ [][(ret'.op = "Flush" /\ ((kind = "cal" /\ Buffered = 0) \/ (kind = "meal" /\ ms.head = <<>>)))
         => (calls' = calls /\ ret'.err = NoErr)]_vars

\* C10 as amended: no batch call is empty, and Flush on a buffer with zero
\* pending records makes no store call; it returns no error unless a fault
\* is recorded, and then the recorded error.
C10_NoEmptyBatchAmended ==
  /\ []AllBatchesNonEmpty
  /\ [][(ret'.op = "Flush" /\ kind = "cal" /\ Buffered = 0)
         => (calls' = calls /\ ret'.err = err /\ err' = err)]_vars
  /\ [][(ret'.op = "Flush" /\ kind = "meal" /\ ms.head = <<>>)
         => (calls' = calls /\ ret'.err = NoErr)]_vars

\* A Flush on an empty buffer with a fault recorded: no call, the fault returned.
C10_Witness ==
  /\ kind = "cal" /\ ret.op = "Flush" /\ ret.ncalls = 0
  /\ Buffered = 0 /\ err # NoErr /\ ret.err = err

\* The records the last write call was given.
LastP == SubSeq(input, Len(input) - ret.len + 1, Len(input))

\* C11: WriteCalibrations reports every short write.  If it returns a count
\* less than the number of records it was given, it returns an error; if it
\* returns no error, the count is the number of records given and each of
\* them is in the buffer or in a prefix the store reported committed.
C11_ShortWriteReported ==
  (kind = "cal" /\ ret.op = "WriteCalibrations") =>
     /\ (ret.nn < ret.len => ret.err # NoErr)
     /\ (ret.err = NoErr =>
           /\ ret.nn = ret.len
           /\ Ids(LastP) \subseteq Ids(buf) \cup Ids(Committed(calls)))

\* C12: window invariant of the CalibrationReadStreamer.  In every reachable
\* state, every record in the buffer has a timestamp at or after the anchor
\* and less than the anchor plus the duration.
C12_WindowInvariant ==
  kind = "cal" =>
     \A k \in 1..Len(buf) : t <= GetTime(buf[k]) /\ GetTime(buf[k]) < t + d

\* A window of two records off the zero anchor that outlived a failed flush.
C12_Witness ==
  /\ kind = "cal" /\ err # NoErr /\ ret.ncalls >= 1
  /\ Len(buf) >= 2 /\ t > 0 /\ GetTime(Last(buf)) > t

\* The maximal runs of consecutive records of sq whose timestamps truncate to
\* the same multiple of the duration.
RECURSIVE GridRuns(_)
GridRuns(sq) ==
  IF sq = <<>> THEN <<>>
  ELSE LET same == { k \in 1..Len(sq) :
                       \A i \in 1..k : Truncate(GetTime(sq[i]), d) = Truncate(GetTime(sq[1]), d) }
           k == CHOOSE x \in same : \A y \in same : y <= x
       IN <<SubSeq(sq, 1, k)>> \o GridRuns(SubSeq(sq, k + 1, Len(sq)))

\* The batches the store received, in order.
Batches == [k \in 1..Len(BatchCalls(calls)) |-> BatchCalls(calls)[k].recs]

\* Only write calls and one Close at the end reached the store, and every
\* call to the store and to the downstream writer succeeded.
WrittenThenClosed ==
  /\ ret.op = "Close" /\ ~explicitFlush
  /\ FullySucceeded(calls)
  /\ \A k \in 1..Len(calls) : calls[k].err = NoErr
  /\ \A k \in 1..(Len(calls) - 1) : calls[k].op = "batch"

\* C13: grid-aligned partition.  For input sorted by time, written to a fresh
\* CalibrationReadStreamer in any number of write calls with no Flush between
\* them and then closed, all store calls succeeding, the batches the store
\* received are the maximal runs of consecutive records whose timestamps
\* truncate to the same multiple of the duration.
C13_GridPartition ==
  (kind = "cal" /\ WrittenThenClosed) => Batches = GridRuns(input)

\* Three records written and closed, one write call having crossed two
\* boundaries and flushed at each; two records less than the duration apart
\* lie across a grid line and went in separate batches.
C13_Witness ==
  /\ kind = "cal" /\ WrittenThenClosed
  /\ Len(input) >= 3 /\ Len(Batches) >= 3 /\ inlineFlushes >= 2
  /\ \E k \in 1..(Len(input) - 1) :
       /\ GetTime(input[k + 1]) - GetTime(input[k]) < d
       /\ Truncate(GetTime(input[k]), d) # Truncate(GetTime(input[k + 1]), d)

\* The anchor of a meal window: the Meal that tailVal points to.
Anchor(s, h) == Deref(h, s.tailVal)

\* C14: first-arrival anchoring in the MealStreamer.  The anchor of an open
\* window is the first record placed in it, whatever was appended since; a
\* record whose time minus the anchor's is at least the duration flushes the
\* window without it and opens a window holding that record alone, anchored
\* at it.
C14_FirstArrivalAnchor ==
  /\ [](kind = "meal" /\ ~ms.isNil /\ ms.head # <<>> => Anchor(ms, heap) = Last(ms.head))
  /\ [][(kind = "meal" /\ ret'.op = "WriteMeal" /\ input' # input /\ ms.head # <<>>
           /\ GetTime(Last(input')) - GetTime(Anchor(ms, heap)) >= d) =>
          /\ Len(calls') = Len(calls) + 1
          /\ Last(calls').recs = ReverseList(ms.head).r
          /\ (ret'.err = NoErr =>
                ms'.head = <<Last(input')>> /\ Anchor(ms', heap') = Last(input'))]_vars

\* C15: the batch a MealStreamer hands the store lists the window's records
\* oldest first, although the window is kept newest first: in every batch
\* each record arrived before the next and is not newer than it, and a Flush hands over the records of
\* the window, the last of the list first, for every window length.
C15_ChronologicalBatch ==
  /\ [](kind = "meal" =>
          \A k \in 1..Len(calls) : calls[k].op = "batch" =>
             \A i \in 1..(Len(calls[k].recs) - 1) :
                /\ calls[k].recs[i].id < calls[k].recs[i + 1].id
                /\ GetTime(calls[k].recs[i]) <= GetTime(calls[k].recs[i + 1]))
  /\ [][(kind = "meal" /\ ret'.op = "Flush" /\ ms.head # <<>>) =>
          /\ Len(calls') = Len(calls) + 1
          /\ Len(Last(calls').recs) = Len(ms.head)
          /\ \A i \in 1..Len(ms.head) :
               Last(calls').recs[i] = ms.head[Len(ms.head) + 1 - i]]_vars

\* A Flush that handed over a window of two or more records, after a batch
\* of a single record.
C15_Witness ==
  /\ kind = "meal" /\ ret.op = "Flush" /\ ret.ncalls = 1
  /\ Len(Last(calls).recs) >= 2
  /\ \E k \in 1..Len(calls) : calls[k].op = "batch" /\ Len(calls[k].recs) = 1

\* The store answered the call with a failure: an error, or for a calibration
\* batch nothing committed.
CallFailed(c) == c.op = "batch" /\ (c.err # NoErr \/ (kind = "cal" /\ c.n < 1))

\* The records of the last write call from the one that crossed the boundary
\* of the failed batch on.
NotTaken == { x \in Ids(LastP) : x > Last(Last(calls).recs).id }

\* C16: an inline flush that fails stops the write.  When a store call made
\* by WriteCalibration(s) or WriteMeal(s) fails, it is the last call of that
\* write, the write returns an error (the store's, or the short write), and
\* the record that crossed the boundary and those after it are not in the
\* buffer.
C16_FailedInlineFlushStopsWrite ==
  (ret.op \in {"WriteCalibrations", "WriteCalibration", "WriteMeals", "WriteMeal"}
     /\ \E k \in 1..Len(NewCalls) : CallFailed(NewCalls[k])) =>
     /\ \A k \in 1..(Len(NewCalls) - 1) : ~CallFailed(NewCalls[k])
     /\ ret.err # NoErr
     /\ ret.err = (IF Last(calls).err # NoErr THEN Last(calls).err ELSE ErrShortWrite)
     /\ NotTaken # {}
     /\ (kind = "cal" =>
           /\ ret.nn < ret.len
           /\ err = ret.err
           /\ Ids(buf) \cap NotTaken = {}
           /\ buf = SubSeq(Last(calls).recs, Last(calls).n + 1, Len(Last(calls).recs)))
     /\ (kind = "meal" => Ids(ms.head) \cap NotTaken = {})

\* A WriteCalibrations whose first inline flush succeeded and whose second
\* failed, with a record left untaken.
C16_Witness ==
  /\ kind = "cal" /\ ret.op = "WriteCalibrations" /\ ret.ncalls = 2
  /\ ~CallFailed(calls[Len(calls) - 1]) /\ CallFailed(Last(calls))
  /\ ret.nn = 2 /\ ret.len = 3 /\ Len(buf) >= 1

\* C17: the buffer does not grow while a fault is recorded.  With a fault
\* recorded, every WriteCalibration and WriteCalibrations returns the recorded
\* error and adds no record, Buffered() never increases, and WriteCalibration(c)
\* and WriteCalibrations([c]) have the same outcome.
C17_NoGrowthUnderFault ==
  /\ [][(kind = "cal" /\ err # NoErr) =>
          /\ Len(buf') <= Len(buf)
          /\ (input' # input => ret'.err = err /\ ret'.nn = 0 /\ buf' = buf)]_vars
  /\ [](kind = "cal" /\ err # NoErr =>
          \A p \in { q \in NextInputs : Len(q) = 1 } :
             WriteCalibration(Streamer, calls, p[1]) = WriteCalibrations(Streamer, calls, p))

\* C18: the count WriteCalibrations returns accounts for partial progress.
\* After a call that was given p and returned nn, each of the first nn
\* records of p is in a prefix the store reported committed or in the buffer,
\* and no record of p after them is.
C18_CountIsProgress ==
  (kind = "cal" /\ ret.op = "WriteCalibrations") =>
     \A k \in 1..Len(LastP) :
        (k <= ret.nn) <=> (LastP[k].id \in Ids(Committed(calls)) \cup Ids(buf))

\* The records the write call of this step is given.
StepP == SubSeq(input', Len(input) + 1, Len(input'))

\* No record of the call crosses the boundary of the calibration window: the
\* anchor is that of the open window, or on an empty buffer the first
\* record's time truncated.
NoCrossCal ==
  LET anchor == IF buf = <<>> THEN Truncate(GetTime(StepP[1]), d) ELSE t
  IN \A k \in 1..Len(StepP) : GetTime(StepP[k]) - anchor < d

\* No record of the call crosses the boundary of the meal window: the anchor
\* is the first record placed in the window, or on an empty window the first
\* record of the call.
NoCrossMeal ==
  LET anchor == IF ms.head = <<>> THEN StepP[1] ELSE Last(ms.head)
  IN \A k \in 1..Len(StepP) : GetTime(StepP[k]) - GetTime(anchor) < d

\* What a write call without a crossing does to a MealStreamer: no call to
\* the store, and the records join the open window.
C19_MealAppends ==
  (kind = "meal" /\ input' # input /\ NoCrossMeal) =>
     /\ calls' = calls
     /\ ~ms'.isNil /\ ret'.err = NoErr
     /\ Len(ms'.head) = Len(ms.head) + ret'.len
     /\ ReverseList(ms'.head).r = ReverseList(ms.head).r \o StepP

\* The store is called only by a write that detected a crossing, by Flush
\* and by Close.
C19_StoreCalledOnly ==
  calls' # calls =>
     \/ ret'.op \in {"Flush", "Close"}
     \/ kind = "cal" /\ input' # input /\ ~NoCrossCal
     \/ kind = "meal" /\ input' # input /\ ~NoCrossMeal

\* C19 as stated: windows close only on a boundary crossing or on Flush or
\* Close.  A write call in which no record has time minus anchor at or above
\* the duration makes no call to the store and appends its records to the open
\* window, which grows by len(p); the store is called only by a write that
\* detected a crossing, by Flush and by Close.
C19_WindowsCloseOnlyOnCrossing ==
  [][/\ (kind = "cal" /\ input' # input /\ NoCrossCal) =>
          /\ calls' = calls
          /\ buf' = buf \o StepP
          /\ Len(buf') = Len(buf) + ret'.len
     /\ C19_MealAppends
     /\ C19_StoreCalledOnly]_vars

\* C19 as amended: a write call without a crossing makes no call to the
\* store; with no fault recorded it appends its records to the open window,
\* which grows by len(p), and returns no error; WriteCalibration with a fault
\* recorded returns the fault and appends nothing; the store is called only by
\* a write that detected a crossing, by Flush and by Close.
C19_WindowsCloseOnlyOnCrossingAmended ==
  [][/\ (kind = "cal" /\ input' # input /\ NoCrossCal) =>
          /\ calls' = calls
          /\ (err = NoErr =>
                /\ buf' = buf \o StepP
                /\ Len(buf') = Len(buf) + ret'.len
                /\ ret'.nn = ret'.len /\ ret'.err = NoErr)
          /\ ((err # NoErr /\ ret'.op = "WriteCalibration") =>
                buf' = buf /\ ret'.nn = 0 /\ ret'.err = err)
     /\ C19_MealAppends
     /\ C19_StoreCalledOnly]_vars

\* A WriteCalibration of a record inside the open window, on a streamer with
\* a fault recorded: no call to the store, the fault returned, the window of
\* two records as it was.
C19_Witness ==
  /\ kind = "cal" /\ ret.op = "WriteCalibration" /\ ret.ncalls = 0
  /\ err # NoErr /\ ret.err = err /\ ret.nn = 0
  /\ Len(buf) = 2 /\ GetTime(Last(input)) - t < d
  /\ Last(input).id \notin Ids(buf)

\* What a streamer denotes: its window, its anchor read through tailVal, and
\* its downstream writer.
View(s, h) == [isNil |-> s.isNil, head |-> s.head, anchor |-> Anchor(s, h), wr |-> s.wr]

\* C20: the operations of the MealStreamer are non-destructive.  After
\* WriteMeal, WriteMeals, Flush or Close the receiver denotes the same window,
\* anchor and downstream writer as before, and so does every streamer
\* returned earlier: no Meal variable a streamer points to changes its value.
C20_NonDestructive ==
  [][kind = "meal" =>
       /\ View(recv', heap') = View(ms, heap)
       /\ Len(heap') >= Len(heap)
       /\ \A a \in 1..Len(heap) : heap'[a] = heap[a]]_vars

\* A write on a receiver with an open window returned a streamer with another
\* window, two range variables having been allocated.
C20_Witness ==
  /\ kind = "meal" /\ ret.op \in {"WriteMeals", "WriteMeal"}
  /\ ~recv.isNil /\ recv.head # <<>> /\ recv.tailVal # 0
  /\ ~ms.isNil /\ ms.head # recv.head
  /\ Len(heap) >= 2

\* The handle the store returned last: that of the last call, or the one the
\* streamer was constructed with.
LatestHandle(cs) == IF cs = <<>> THEN 1 ELSE Last(cs).hr

\* C21: continuation-handle adoption in the MealStreamer.  After a successful
\* flush of a window that was not empty the returned streamer has an empty
\* window; every call to the store or the downstream writer goes to the handle
\* returned last, and the streamer returned holds that handle; a flush of an
\* empty window keeps the handle.
C21_HandleAdoption ==
  kind = "meal" =>
     /\ \A k \in 1..Len(calls) : calls[k].h = LatestHandle(SubSeq(calls, 1, k - 1))
     /\ (~ms.isNil => ms.wr = LatestHandle(calls))
     /\ (ret.op = "Flush" /\ ret.err = NoErr => ms.head = <<>>)
     /\ (ret.op = "Flush" /\ ret.ncalls = 0 => ms.wr = recv.wr)

\* The batches a fresh CalibrationReadStreamer submits when inp is written in
\* one call and the streamer closed, every call succeeding.
CalBatchesOf(inp) ==
  LET fresh == [buf |-> <<>>, t |-> 0, err |-> NoErr]
      closed == UNION { Close(w.b, w.calls) :
                        w \in { x \in WriteCalibrations(fresh, <<>>, inp) :
                                  x.r = NoErr /\ FullySucceeded(x.calls) } }
      done == CHOOSE c \in closed : c.r = NoErr /\ FullySucceeded(c.calls)
  IN [k \in 1..Len(BatchCalls(done.calls)) |-> BatchCalls(done.calls)[k].recs]

\* The batches a fresh MealStreamer submits when inp is written in one call
\* and the streamer closed, every call succeeding.
MealBatchesOf(inp) ==
  LET fresh == newMealStreamerDuration(<<>>, 0, 1)
      closed == UNION { MealClose(w.s, w.calls) :
                        w \in { x \in WriteMeals(fresh, <<>>, <<>>, inp) : x.err = NoErr } }
      done == CHOOSE c \in closed : c.err = NoErr
  IN [k \in 1..Len(BatchCalls(done.calls)) |-> BatchCalls(done.calls)[k].recs]

\* Every record of sq from index k on that opens a window under first-arrival
\* anchoring, the window open at k being anchored at time a, lies on the grid.
RECURSIVE OpenersOnGrid(_, _, _)
OpenersOnGrid(sq, k, a) ==
  IF k > Len(sq) THEN TRUE
  ELSE IF GetTime(sq[k]) - a >= d
  THEN GetTime(sq[k]) % d = 0 /\ OpenersOnGrid(sq, k + 1, GetTime(sq[k]))
  ELSE OpenersOnGrid(sq, k + 1, a)

GridAligned(sq) == GetTime(sq[1]) % d = 0 /\ OpenersOnGrid(sq, 2, GetTime(sq[1]))

\* C22: the two windowing policies agree on grid-aligned input.  For input
\* sorted by time on which every record that opens a window under
\* first-arrival anchoring has a timestamp that is a multiple of the duration,
\* the MealStreamer and the CalibrationReadStreamer, given the whole input and
\* closed with every call succeeding, submit the same sequence of batches;
\* and among the inputs whose first record is off the grid there is one on
\* which the two sequences differ.
C22_PoliciesAgreeOnGrid ==
  /\ (kind = "meal" /\ input # <<>> /\ GridAligned(input)) =>
        MealBatchesOf(input) = CalBatchesOf(input)
  /\ (kind = "meal" /\ input = <<>>) =>
        \E inp \in NextInputs :
           /\ inp # <<>> /\ GetTime(inp[1]) % d # 0
           /\ MealBatchesOf(inp) # CalBatchesOf(inp)

\* The last operation was a Close of the CalibrationReadStreamer whose local
\* flush succeeded and whose downstream Flush returned an error.
DownstreamFlushFailed ==
  /\ kind = "cal" /\ ret.op = "Close" /\ ret.ncalls >= 1
  /\ Last(calls).op = "flush" /\ Last(calls).err # NoErr

\* C23: downstream flush failure during Close of a CalibrationReadStreamer.
\* When the local flush succeeds and the downstream Flush returns an error,
\* Close returns that error, the buffer is empty and no fault is recorded; a
\* Close right after calls the downstream Flush alone and submits no batch.
C23_DownstreamFlushFailure ==
  /\ [](DownstreamFlushFailed =>
          ret.err = Last(calls).err /\ Buffered = 0 /\ err = NoErr)
  /\ [][(DownstreamFlushFailed /\ ret'.op = "Close") =>
          /\ Len(calls') = Len(calls) + 1
          /\ SubSeq(calls', 1, Len(calls)) = calls
          /\ Last(calls').op = "flush"
          /\ ret'.err = Last(calls').err]_vars

\* A Close that called the downstream Flush alone, right after a Close that
\* had written a batch and whose downstream Flush had failed.
C23_Witness ==
  /\ kind = "cal" /\ ret.op = "Close" /\ ret.ncalls = 1 /\ Len(calls) >= 3
  /\ Last(calls).op = "flush"
  /\ calls[Len(calls) - 1].op = "flush" /\ calls[Len(calls) - 1].err # NoErr
  /\ calls[Len(calls) - 2].op = "batch"
  /\ Buffered = 0 /\ err = NoErr

\* What a step of worker p's run of processSingleFile must do for C24: only
\* the retry adds a task, the same file one hour ahead; the log written is
\* the error message or "Success" with the last read time; the run ends by
\* sending "Refresh".
C24_Step(p) ==
  LET f == procs[p]
  IN (f.fn = "processSingleFile" /\ procs'[p] # f) =>
       /\ taskqueue' = IF f.pc = "Retry"
                       THEN taskqueue (+) SetToBag({FileTask(f.file, f.enqAt + HOUR)})
                       ELSE taskqueue
       /\ f.pc = "LogFileImport" =>
            fileImportLog'[f.file] =
              [logged |-> TRUE, LastDataProcessed |-> f.lastReadTime,
               ImportResult |-> IF f.perr = NoErr THEN "Success" ELSE f.perr]
       /\ procs'[p] = Idle => run'.sent = <<"Refresh">>

\* C24: file import retry.  In processSingleFile, when parsing or storing the
\* file content fails, the same file is enqueued again exactly once with a
\* one-hour delay and the file import log records the error message; when it
\* succeeds no retry is enqueued and the log records "Success"; in both cases,
\* and when the file cannot be read, "Refresh" is sent to the user.
C24_FileImportRetry == [][\A p \in Workers : C24_Step(p)]_vars

\* The refresh tasks on a queue.
RefreshTasks(q) == [x \in { y \in DOMAIN q : y.fn = "refreshUserData" } |-> q[x]]

\* updateUserData past the check of the token: the token is valid or was
\* refreshed.
TokenOk(f) ==
  f.pc \in {"StoreUserProfile", "SearchDataFiles", "enqueueFileImport",
            "StartGlukitScoreBatch", "StartA1CCalculationBatch", "Task"}

\* What a step of worker p's run of updateUserData must do for C25: the
\* scheduling statement adds one refresh task a day after nextUpdate was taken
\* and no other statement adds or removes one; a run with autoScheduleNextRun
\* that is past the check of the token ends at the scheduling statement only.
C25_Step(p) ==
  LET f == procs[p]
  IN (f.fn = "updateUserData" /\ procs'[p] # f) =>
       /\ RefreshTasks(taskqueue') =
            IF f.pc = "Task"
            THEN RefreshTasks(taskqueue) (+) SetToBag({RefreshTask(TRUE, f.at + DAY)})
            ELSE RefreshTasks(taskqueue)
       /\ (procs'[p] = Idle /\ f.auto /\ TokenOk(f)) => f.pc = "Task"
       /\ f.pc = "Task" => f.auto

\* C25: updateUserData reschedules itself for the next day unless the token is
\* invalid.  A run with autoScheduleNextRun whose token is valid or is
\* refreshed schedules exactly one refresh task one day later, whatever the
\* file search answers; a run whose token cannot be refreshed or whose user
\* does not exist schedules none; a run without autoScheduleNextRun schedules
\* none.
C25_SelfReschedule == [][\A p \in Workers : C25_Step(p)]_vars

\* What a step of worker p's call of StoreDaysOfReads must do for C26:
\* MostRecentRead does not decrease, it changes only to a strictly later last
\* read, and a call that returns without error leaves it at least at the last
\* read of the last day.
C26_Step(p) ==
  LET f == procs[p]
  IN (f.fn = "StoreDaysOfReads" /\ procs'[p] # f) =>
       /\ mostRecentRead' >= mostRecentRead
       /\ mostRecentRead' # mostRecentRead =>
            mostRecentRead' = f.last /\ f.last > mostRecentRead
       /\ (procs'[p] = Idle /\ run'.err = NoErr) => mostRecentRead' >= f.last

\* C26: StoreDaysOfReads keeps MostRecentRead monotone.  Over successful calls
\* of StoreDaysOfReads MostRecentRead never decreases; after each call it is at
\* least the time of the last read of the last day of the batch; it is
\* rewritten only when that read is strictly later than the stored value.
C26_MostRecentReadMonotone == [][\A p \in Workers : C26_Step(p)]_vars

====
